---- MODULE Spec2Model ----
(***************************************************************************)
(* Model of the e_core_detection library (src/src/lib.rs): detection of    *)
(* the P-core / E-core partition of a hybrid CPU by probing every logical  *)
(* CPU with a pinned child process, sequentially (taskset_sync) or         *)
(* concurrently (taskset_async), and aggregating the verdicts              *)
(* (process_raw_command_out, CorePELayout::new).                           *)
(*                                                                         *)
(* Strings are sequences of one-character strings, so that str::trim and   *)
(* the exact match of CoreType::from_string are computed, not assumed.     *)
(***************************************************************************)
EXTENDS Integers, Sequences, FiniteSets, TLC

\* ------------------------------------------------------------------ bounds

\* Largest number of logical CPUs (n_cores) explored.
MaxCores == 3

\* Largest number of whitespace characters put before / after a label in
\* the strings given to the parser.
MaxPad == 1

\* ------------------------------------------------------- program constants

\* u8 arithmetic: Range<u8>, `n_cores: u8`, `len() as u8`.
U8Modulus == 256

\* The hard-coded end of e_cores in CorePELayout::new.
ECoresEnd == 19

\* is_hybrid reads bit (15 - 1) of CPUID.(EAX=07H,ECX=0):EDX.
HybridShift == 14

\* test_core: `res.eax >> 24`, and the core-type ids it matches.
CoreTypeShift == 24
PCoreId == 64
ECoreId == 32

None == "None"

\* ----------------------------------------------------------------- strings

P_CORE == <<"P", "_", "C", "O", "R", "E">>
E_CORE == <<"E", "_", "C", "O", "R", "E">>
X_CORE == <<"X", "_", "C", "O", "R", "E">>
p_core_lower == <<"p", "_", "c", "o", "r", "e">>
e_core_lower == <<"e", "_", "c", "o", "r", "e">>
P_SPACE_CORE == <<"P", " ", "C", "O", "R", "E">>

\* Characters str::trim strips (the White_Space characters of the alphabet).
WhiteSpace == {" ", "\n", "\t"}

RECURSIVE trim_start(_)
trim_start(s) ==
    IF s # <<>> /\ Head(s) \in WhiteSpace THEN trim_start(Tail(s)) ELSE s

RECURSIVE trim_end(_)
trim_end(s) ==
    IF s # <<>> /\ s[Len(s)] \in WhiteSpace
    THEN trim_end(SubSeq(s, 1, Len(s) - 1))
    ELSE s

\* str::trim: leading and trailing whitespace removed.
trim(s) == trim_end(trim_start(s))

\* CoreType::from_string: exact match, Option<CoreType>.
ToAsciiUpper(c) ==
    CASE c = "p" -> "P" [] c = "e" -> "E" [] c = "c" -> "C"
      [] c = "o" -> "O" [] c = "r" -> "R" [] OTHER -> c
from_string_ignore_case(input) ==
    LET up == [i \in DOMAIN input |-> ToAsciiUpper(input[i])]
    IN  IF up = P_CORE /\ input # <<>> THEN "P"
        ELSE IF up = E_CORE /\ input # <<>> THEN "E"
        ELSE None
from_string(input) ==
    IF input = P_CORE THEN "P"
    ELSE IF input = E_CORE THEN "E"
    ELSE None

\* --------------------------------------------------------- u8 arithmetic

\* a - b and a + b on u8: [ovf |-> the operation overflowed, val |-> the
\* wrapped value]. With overflow checks (debug profile) an overflow panics,
\* without them (release profile) the wrapped value is used.
SubU8(a, b) == [ovf |-> a - b < 0, val |-> (a - b) % U8Modulus]
AddU8(a, b) == [ovf |-> a + b >= U8Modulus, val |-> (a + b) % U8Modulus]

\* `x as u8`
AsU8(x) == x % U8Modulus

\* ----------------------------------------------------------------- results

\* Result<_, _> values and panics, all of one shape.
Ok(v) == [tag |-> "Ok", val |-> v]
Err(e) == [tag |-> "Err", val |-> e]
Panic == [tag |-> "Panic", val |-> "overflow"]
NoResult == [tag |-> "None", val |-> "None"]

\* Range<u8>: start..end, end excluded.
Range(s, e) == [start |-> s, end |-> e]
Contains(r, i) == r.start <= i /\ i < r.end

\* ------------------------------------------------------------------- state

VARIABLES
    edx,              \* CPUID.(EAX=07H,ECX=0):EDX of this machine
    num_cpus,         \* num_cpus::get()
    outcome,          \* outcome[c]: what a child pinned to logical CPU c does
    overflow_checks,  \* build profile: TRUE = debug (overflow panics)
    pc,               \* position of the current request
    strategy,         \* "sync" | "async" | "none"
    next,             \* the index the launching iterator is at
    launched,         \* the --cpu-list arguments of the launches, in order
    running,          \* indices whose child / task has not completed yet
    handles,          \* async: the JoinHandle results, by position
    raw_out,          \* the Vec<io::Result<Output>> given to the aggregator
    returned,         \* returned[s]: what the request of strategy s returned
    overtaken,        \* async: some task completed before one spawned earlier
    call              \* a direct call of a public / pure function

vars == <<edx, num_cpus, outcome, overflow_checks, pc, strategy, next,
          launched, running, handles, raw_out, returned, overtaken, call>>

env == <<edx, num_cpus, outcome, overflow_checks>>

\* ------------------------------------------------------------- environment

\* The EDX values explored: every combination of bits 14 and 15.
EdxValues == {0, 16384, 32768, 49152}

\* num_cpus::get() is at least 1; 256 is the smallest count that
\* `as u8` truncates to 0.
NumCpusValues == (1 .. MaxCores) \cup {U8Modulus}

\* ------------------------------------------------------- the pure functions

\* is_hybrid: (1 & (res.edx >> (15 - 1))) == 1
is_hybrid_shift15 == ((edx \div 32768) % 2) = 1
is_hybrid == ((edx \div (2 ^ HybridShift)) % 2) = 1

\* `num_cpus::get() as u8`, the n_cores argument of taskset_sync / _async.
n_cores == AsU8(num_cpus)

CpuIndices == 0 .. (n_cores - 1)

\* i.to_string() of a u8, in decimal, and the index the pinning utility
\* reads back from its --cpu-list argument.
Digit(d) == <<"0", "1", "2", "3", "4", "5", "6", "7", "8", "9">>[d + 1]
DigitValue(c) == CHOOSE d \in 0 .. 9 : Digit(d) = c

RECURSIVE to_string(_)
to_string(i) ==
    IF i < 10 THEN <<Digit(i)>>
    ELSE Append(to_string(i \div 10), Digit(i % 10))

RECURSIVE CpuOfArg(_)
CpuOfArg(s) ==
    IF Len(s) = 1 THEN DigitValue(s[1])
    ELSE 10 * CpuOfArg(SubSeq(s, 1, Len(s) - 1)) + DigitValue(s[Len(s)])

\* The argument of `--cpu-list` for index i.
CpuListArg(i) == to_string(i)

\* CorePELayout::new. The result is the layout, or a panic when
\* p_core_end_idx + 1 overflows in a build with overflow checks.
CorePELayout(p, e) == [p_cores |-> p, e_cores |-> e]

new(p_core_end_idx) ==
    LET e_start == AddU8(p_core_end_idx, 1)
    IN  IF e_start.ovf /\ overflow_checks
        THEN Panic
        ELSE [tag |-> "Layout",
              val |-> CorePELayout(Range(0, p_core_end_idx),
                                   Range(e_start.val, ECoresEnd))]

\* The closure of process_raw_command_out: one io::Result<Output> to
\* Result<CoreType, CoreTypeFetchError>.
core_type_of(core_type) ==
    IF core_type.kind = "SpawnErr"
    THEN Err("UnknownCoreType")
    ELSE IF ~core_type.utf8
         THEN Err("TasksetFailure")
         ELSE LET ct == from_string(trim(core_type.stdout))
              IN  IF ct = None THEN Err("UnknownCoreType") ELSE Ok(ct)

\* The first half of the partition: the entries equal to Ok(CoreType::P).
IsOkP(ct) == ct = Ok("P")
IsErr(ct) == ct.tag = "Err"

\* process_raw_command_out: every verdict is mapped, the verdicts are
\* partitioned into those equal to Ok(P) and the rest, and the layout is
\* built from the length of the first part. No Err is ever returned.
process_raw_command_out_failfast(raw) ==
    LET mapped == [j \in DOMAIN raw |-> core_type_of(raw[j].res)]
        errs == SelectSeq(mapped, IsErr)
        idx == SubU8(AsU8(Len(SelectSeq(mapped, IsOkP))), 1)
    IN  IF errs # <<>> THEN Err(errs[1].val)
        ELSE IF idx.ovf /\ overflow_checks THEN Panic
        ELSE LET l == new(idx.val)
             IN  IF l.tag = "Panic" THEN Panic ELSE Ok(l.val)
process_raw_command_out(raw) ==
    LET mapped == [j \in DOMAIN raw |-> core_type_of(raw[j].res)]
        p == SelectSeq(mapped, IsOkP)
        idx == SubU8(AsU8(Len(p)), 1)
    IN  IF idx.ovf /\ overflow_checks
        THEN Panic
        ELSE LET l == new(idx.val)
             IN  IF l.tag = "Panic" THEN Panic ELSE Ok(l.val)

\* .map_err(|_| e)
map_err(r, e) == IF r.tag = "Err" THEN Err(e) ELSE r

\* taskset_sync, its last expression:
\* process_raw_command_out(cores_raw_strs).map_err(|_| UnknownCoreType)
taskset_sync_return(cores_raw_strs) ==
    map_err(process_raw_command_out(cores_raw_strs), "UnknownCoreType")

\* taskset_async, its last expression:
\* process_raw_command_out(completed).map_err(|_| UnknownCoreType)
taskset_async_return_failfast(completed) ==
    map_err(process_raw_command_out_failfast(completed), "UnknownCoreType")
taskset_async_return(completed) ==
    map_err(process_raw_command_out(completed), "UnknownCoreType")

\* ---------------------------------------------------------------- test_core

UNRECOGNISED_PREFIX ==
    <<"U", "N", "R", "E", "C", "O", "G", "N", "I", "S", "E", "D", ":", " ">> \o
    <<"i", "n", "d", "i", "c", "a", "t", "o", "r", "-", "r", "a", "n", "g", "e", "=">>
EAX_REG_INFIX == <<",", " ", "e", "a", "x", "_", "r", "e", "g", "=">>

\* {:0wb}: v in binary, at least w digits, zero-padded.
RECURSIVE Binary(_)
Binary(v) ==
    IF v < 2 THEN <<Digit(v)>> ELSE Append(Binary(v \div 2), Digit(v % 2))

RECURSIVE ZeroPad(_, _)
ZeroPad(s, w) == IF Len(s) >= w THEN s ELSE ZeroPad(<<"0">> \o s, w)

FormatBinary(v, w) == ZeroPad(Binary(v), w)

\* A u32 register as its two 16-bit halves (32-bit values do not fit the
\* checker's integers): the value is hi * 65536 + lo.
U32(h, l) == [hi |-> h, lo |-> l]

\* eax >> k, for 16 <= k < 32.
ShiftRight(eax, k) == eax.hi \div (2 ^ (k - 16))

\* {:032b}
FormatBinary32(eax) == FormatBinary(eax.hi, 16) \o FormatBinary(eax.lo, 16)

test_core_shift16(eax) ==
    LET x == ShiftRight(eax, 16)
    IN  IF x = PCoreId THEN P_CORE
        ELSE IF x = ECoreId THEN E_CORE
        ELSE UNRECOGNISED_PREFIX \o FormatBinary(AsU8(x), 8)
             \o EAX_REG_INFIX \o FormatBinary32(eax)

\* test_core on a core whose CPUID.1AH:EAX is eax (32 bits).
test_core(eax) ==
    LET x == ShiftRight(eax, CoreTypeShift)
    IN  IF x = PCoreId THEN P_CORE
        ELSE IF x = ECoreId THEN E_CORE
        ELSE UNRECOGNISED_PREFIX \o FormatBinary(AsU8(x), 8)
             \o EAX_REG_INFIX \o FormatBinary32(eax)

\* The child re-invoked with -s: println!("{}", test_core()).
SingleModeStdout(eax) == test_core(eax) \o <<"\n">>

\* The CPUID.1AH:EAX values of the cores explored: a P core (0x40 in the top
\* byte), an E core (0x20) and a core of another type (0x10).
EaxValues == {U32(16384, 0), U32(8192, 0), U32(4096, 0)}

\* What a probe of one logical CPU can do: the pinning utility cannot be
\* launched (io::Error), or the child exits with some bytes on stdout,
\* valid UTF-8 or not: what test_core prints there, or a corrupted capture.
SpawnErr == [kind |-> "SpawnErr", utf8 |-> FALSE, stdout |-> <<>>]
NonUtf8 == [kind |-> "Exit", utf8 |-> FALSE, stdout |-> <<>>]
Printed(s) == [kind |-> "Exit", utf8 |-> TRUE, stdout |-> s]
NoOutcome == [kind |-> "None", utf8 |-> FALSE, stdout |-> <<>>]

\* A child that never exits: no timeout is set on the Command and nothing
\* kills it.
Hung == [kind |-> "Hang", utf8 |-> FALSE, stdout |-> <<>>]

\* output() resolves when the child has exited and its pipes are read.
ExitsAlways(o) == TRUE
Exits(o) == o.kind # "Hang"

ChildOutcomes ==
    {SpawnErr, NonUtf8, Printed(X_CORE \o <<"\n">>)}
        \cup {Printed(SingleModeStdout(e)) : e \in EaxValues}

\* ------------------------------------------------------------ the requests

NotSpawned == [state |-> "None", pin |-> -1, res |-> NoOutcome]
Pending == [state |-> "Pending", pin |-> -1, res |-> NoOutcome]
Aborted == [state |-> "Aborted", pin |-> -1, res |-> NoOutcome]
Ready(entry) == [state |-> "Ready", pin |-> entry.pin, res |-> entry.res]

NoCall == [fn |-> "none", arg |-> <<>>, ret |-> NoResult]

Strategies == {"sync", "async"}

\* The child of the i-th launch: the CPU it is pinned to, and the
\* io::Result<Output> its `output()` gives.
ChildResult(i) ==
    LET c == CpuOfArg(launched[i + 1])
    IN  [pin |-> c, res |-> outcome[c]]

\* The position of the collected results that the completion of the i-th
\* spawned task fills: try_join_all keeps the order of its input.
JoinSlotByArrival(i, hs) ==
    Cardinality({j \in DOMAIN hs : hs[j].state \in {"Ready", "Aborted"}})
JoinSlot(i, hs) == i

\* taskset_sync: output() blocks until the child has exited, so the map
\* reaches the next index only when no child is running.
SyncIdleAlways(r) == TRUE
SyncIdle(r) == r = {}

\* taskset_async: `promises` is collected, all n_cores futures spawned,
\* before try_join_all is given it.
AllSpawnedAlways(k) == TRUE
AllSpawned(k) == k = n_cores

\* try_join_all resolves to Ok when every handle has resolved to Ok.
AllReady(hs) == \A i \in DOMAIN hs : hs[i].state = "Ready"

InitEnv ==
    /\ edx \in EdxValues
    /\ num_cpus \in NumCpusValues
    /\ outcome \in [CpuIndices -> ChildOutcomes]
    /\ overflow_checks \in BOOLEAN

InitRequest ==
    /\ pc = "Idle"
    /\ strategy = "none"
    /\ next = 0
    /\ launched = <<>>
    /\ running = {}
    /\ handles = [i \in CpuIndices |-> NotSpawned]
    /\ raw_out = <<>>
    /\ returned = [s \in Strategies |-> NoResult]
    /\ overtaken = FALSE

Init == InitEnv /\ InitRequest /\ call = NoCall

\* A caller enters get_pe_partition_sync or get_pe_partition_async. One
\* request of each strategy is followed: a request keeps nothing of an
\* earlier one.
Start(s) ==
    /\ pc \in {"Idle", "Done"}
    /\ returned[s].tag = "None"
    /\ pc' = "HybridCheck"
    /\ strategy' = s
    /\ next' = 0
    /\ launched' = <<>>
    /\ running' = {}
    /\ handles' = [i \in CpuIndices |-> NotSpawned]
    /\ raw_out' = <<>>
    /\ overtaken' = FALSE
    /\ UNCHANGED <<env, returned, call>>

\* if !is_hybrid() { return Err(CoreTypeFetchError::NotHybridCPU); }
Reject ==
    /\ pc = "HybridCheck"
    /\ ~is_hybrid
    /\ returned' = [returned EXCEPT ![strategy] = Err("NotHybridCPU")]
    /\ pc' = "Done"
    /\ UNCHANGED <<env, strategy, next, launched, running, handles, raw_out, overtaken, call>>

\* taskset_sync(num_cpus::get() as u8) / taskset_async(..) is entered.
EnterProber ==
    /\ pc = "HybridCheck"
    /\ is_hybrid
    /\ pc' = "Probing"
    /\ UNCHANGED <<env, strategy, next, launched, running, handles, raw_out,
                   returned, overtaken, call>>

\* taskset_sync, one step of the map: the command for index `next` is
\* built and output() starts the child; a spawn error is the item at once.
SyncLaunch ==
    /\ pc = "Probing" /\ strategy = "sync"
    /\ next < n_cores /\ SyncIdle(running)
    /\ launched' = Append(launched, CpuListArg(next))
    /\ LET c == CpuOfArg(CpuListArg(next))
       IN  IF outcome[c].kind = "SpawnErr"
           THEN /\ raw_out' = Append(raw_out, [pin |-> c, res |-> outcome[c]])
                /\ next' = next + 1
                /\ running' = running
           ELSE /\ running' = {next}
                /\ UNCHANGED <<raw_out, next>>
    /\ UNCHANGED <<env, pc, strategy, handles, returned, overtaken, call>>

\* taskset_sync: output() returns when the child has exited.
SyncWait ==
    /\ pc = "Probing" /\ strategy = "sync"
    /\ running = {next}
    /\ Exits(outcome[next])
    /\ raw_out' = Append(raw_out, ChildResult(next))
    /\ running' = {}
    /\ next' = next + 1
    /\ UNCHANGED <<env, pc, strategy, launched, handles, returned, overtaken, call>>

\* taskset_sync: the iterator is exhausted, collect() has the Vec.
SyncCollect ==
    /\ pc = "Probing" /\ strategy = "sync"
    /\ next = n_cores /\ running = {}
    /\ pc' = "Aggregating"
    /\ UNCHANGED <<env, strategy, next, launched, running, handles, raw_out,
                   returned, overtaken, call>>

\* taskset_async, one step of the map: the child for index `next` is
\* started by output() and its future is given to tokio::spawn.
AsyncSpawn ==
    /\ pc = "Probing" /\ strategy = "async"
    /\ next < n_cores
    /\ launched' = Append(launched, CpuListArg(next))
    /\ running' = running \cup {next}
    /\ handles' = [handles EXCEPT ![next] = Pending]
    /\ next' = next + 1
    /\ UNCHANGED <<env, pc, strategy, raw_out, returned, overtaken, call>>

\* A spawned task runs to completion: its JoinHandle holds the
\* io::Result<Output> of its child.
TaskComplete(i) ==
    /\ pc = "Probing" /\ strategy = "async"
    /\ i \in running
    /\ Exits(outcome[i])
    /\ running' = running \ {i}
    /\ handles' = [handles EXCEPT ![JoinSlot(i, handles)] = Ready(ChildResult(i))]
    /\ overtaken' = (overtaken \/ \E j \in running : j < i)
    /\ UNCHANGED <<env, pc, strategy, next, launched, raw_out, returned, call>>

\* A spawned task panics or is cancelled: its JoinHandle holds a JoinError.
TaskAbort(i) ==
    /\ pc = "Probing" /\ strategy = "async"
    /\ i \in running
    /\ running' = running \ {i}
    /\ handles' = [handles EXCEPT ![i] = Aborted]
    /\ UNCHANGED <<env, pc, strategy, next, launched, raw_out, returned, overtaken, call>>

\* try_join_all(promises).await resolves to Ok: every handle is ready, and
\* the Vec holds their values in the order of the handles.
JoinAllOk ==
    /\ pc = "Probing" /\ strategy = "async"
    /\ AllSpawned(next)
    /\ AllReady(handles)
    /\ raw_out' = [j \in 1 .. n_cores |->
                     [pin |-> handles[j - 1].pin, res |-> handles[j - 1].res]]
    /\ pc' = "Aggregating"
    /\ UNCHANGED <<env, strategy, next, launched, running, handles, returned, overtaken, call>>

\* try_join_all(promises).await resolves to Err as soon as one handle holds
\* a JoinError: .map_err(|_| CoreTypeFetchError::TasksetFailure)?
JoinAllErr ==
    /\ pc = "Probing" /\ strategy = "async"
    /\ AllSpawned(next)
    /\ \E i \in CpuIndices : handles[i].state = "Aborted"
    /\ returned' = [returned EXCEPT ![strategy] = Err("TasksetFailure")]
    /\ pc' = "Done"
    /\ UNCHANGED <<env, strategy, next, launched, running, handles, raw_out, overtaken, call>>

\* The last line of taskset_sync and of taskset_async gives the Vec to
\* process_raw_command_out and returns what it returns.
Aggregate ==
    /\ pc = "Aggregating"
    /\ returned' = [returned EXCEPT ![strategy] =
                      IF strategy = "sync"
                      THEN taskset_sync_return(raw_out)
                      ELSE taskset_async_return(raw_out)]
    /\ pc' = "Done"
    /\ UNCHANGED <<env, strategy, next, launched, running, handles, raw_out, overtaken, call>>

Next ==
    \/ \E s \in Strategies : Start(s)
    \/ Reject
    \/ EnterProber
    \/ SyncLaunch
    \/ SyncWait
    \/ SyncCollect
    \/ AsyncSpawn
    \/ \E i \in CpuIndices : TaskComplete(i)
    \/ \E i \in CpuIndices : TaskAbort(i)
    \/ JoinAllOk
    \/ JoinAllErr
    \/ Aggregate

Spec == Init /\ [][Next]_vars

\* The requests on a machine where a child may hang. The steps of the
\* program and the exit of a child that does exit are taken when they stay
\* possible; a caller need not start a request and a task need not fail.
LiveOutcomes ==
    {Hung, SpawnErr, Printed(SingleModeStdout(U32(16384, 0))),
     Printed(SingleModeStdout(U32(8192, 0)))}

InitLive ==
    /\ edx \in EdxValues
    /\ num_cpus \in NumCpusValues
    /\ outcome \in [CpuIndices -> LiveOutcomes]
    /\ overflow_checks \in BOOLEAN
    /\ InitRequest
    /\ call = NoCall

Progress ==
    \/ Reject
    \/ EnterProber
    \/ SyncLaunch
    \/ SyncWait
    \/ SyncCollect
    \/ AsyncSpawn
    \/ \E i \in CpuIndices : TaskComplete(i)
    \/ JoinAllOk
    \/ JoinAllErr
    \/ Aggregate

SpecLive == InitLive /\ [][Next]_vars /\ WF_vars(Progress)

\* ------------------------------------------- direct calls of the functions

\* CorePELayout::new is public: a caller may give it any u8.
InitNew ==
    /\ edx = 0
    /\ num_cpus = 1
    /\ outcome = [c \in CpuIndices |-> NoOutcome]
    /\ overflow_checks \in BOOLEAN
    /\ InitRequest
    /\ call \in {[fn |-> "new", arg |-> k, ret |-> NoResult] : k \in 0 .. (U8Modulus - 1)}

CallNew ==
    /\ call.fn = "new"
    /\ call.ret.tag = "None"
    /\ call' = [call EXCEPT !.ret = new(call.arg)]
    /\ UNCHANGED <<env, pc, strategy, next, launched, running, handles, raw_out,
                   returned, overtaken>>

NextNew == CallNew

SpecNew == InitNew /\ [][NextNew]_vars

\* The strings given to the parser: a label, a near miss of a label or the
\* oracle's diagnostic, with up to MaxPad whitespace characters on each side.
Pads == UNION {[1 .. k -> WhiteSpace] : k \in 0 .. MaxPad}

ParseBodies ==
    {P_CORE, E_CORE, X_CORE, p_core_lower, e_core_lower, P_SPACE_CORE, <<>>,
     P_CORE \o E_CORE, test_core(U32(4096, 0))}

ParseInputs == {a \o b \o c : a \in Pads, b \in ParseBodies, c \in Pads}

InitParse ==
    /\ edx = 0
    /\ num_cpus = 1
    /\ outcome = [c \in CpuIndices |-> NoOutcome]
    /\ overflow_checks = TRUE
    /\ InitRequest
    /\ call \in {[fn |-> f, arg |-> a, ret |-> NoResult] :
                   f \in {"from_string", "core_type_of"}, a \in ParseInputs}

\* CoreType::from_string(arg)
CallFromString ==
    /\ call.fn = "from_string"
    /\ call.ret.tag = "None"
    /\ call' = [call EXCEPT !.ret = [tag |-> "Option", val |-> from_string(call.arg)]]
    /\ UNCHANGED <<env, pc, strategy, next, launched, running, handles, raw_out,
                   returned, overtaken>>

\* The closure of process_raw_command_out on Ok(Output { stdout: arg, .. }).
CallCoreTypeOf ==
    /\ call.fn = "core_type_of"
    /\ call.ret.tag = "None"
    /\ call' = [call EXCEPT !.ret = core_type_of(Printed(call.arg))]
    /\ UNCHANGED <<env, pc, strategy, next, launched, running, handles, raw_out,
                   returned, overtaken>>

NextParse == CallFromString \/ CallCoreTypeOf

SpecParse == InitParse /\ [][NextParse]_vars

\* test_core on every top byte of CPUID.1AH:EAX, with bits 16..23 and
\* bits 0..15 all 0 or all 1.
EaxInputs ==
    {U32(t * 256 + m, l) : t \in 0 .. (U8Modulus - 1), m \in {0, 255}, l \in {0, 65535}}

InitTestCore ==
    /\ edx = 0
    /\ num_cpus = 1
    /\ outcome = [c \in CpuIndices |-> NoOutcome]
    /\ overflow_checks = TRUE
    /\ InitRequest
    /\ call \in {[fn |-> "test_core", arg |-> a, ret |-> NoResult] : a \in EaxInputs}

\* test_core() on a core whose EAX is arg, and the CoreType its label
\* parses to.
CallTestCore ==
    /\ call.fn = "test_core"
    /\ call.ret.tag = "None"
    /\ call' = [call EXCEPT !.ret =
                  [tag |-> "Label",
                   val |-> [label |-> test_core(call.arg),
                            parsed |-> from_string(test_core(call.arg))]]]
    /\ UNCHANGED <<env, pc, strategy, next, launched, running, handles, raw_out,
                   returned, overtaken>>

NextTestCore == CallTestCore

SpecTestCore == InitTestCore /\ [][NextTestCore]_vars

\* ------------------------------------------------------------------ claims

\* What the hardware state makes of each probed index, whatever the strategy.
Verdict(c) == core_type_of(outcome[c])
PCount == Cardinality({c \in CpuIndices : Verdict(c).tag = "Ok" /\ Verdict(c).val = "P"})
ProbeFails(c) == Verdict(c).tag = "Err"
Unrecognised(c) ==
    /\ outcome[c].kind = "Exit"
    /\ outcome[c].utf8
    /\ trim(outcome[c].stdout) \notin {P_CORE, E_CORE}
NoJoinError == \A i \in CpuIndices : handles[i].state # "Aborted"
PBelowE ==
    \A a, b \in CpuIndices :
        (Verdict(a).tag = "Ok" /\ Verdict(b).tag = "Ok"
            /\ Verdict(a).val = "P" /\ Verdict(b).val = "E") => a < b
IsError(r, e) == r.tag = "Err" /\ r.val = e
SameResult(a, b) == a.tag = b.tag /\ a.val = b.val

\* C1 (as claimed): on a hybrid CPU with n_cores >= 1, when at least one
\* child probe fails (spawn error, non-UTF-8 output, unrecognised text), the
\* request that has returned has returned an error, never a layout. Stated
\* here for the runs with at least one P verdict, where no u8 underflow
\* interferes.
C1_FailFast ==
    (pc = "Done" /\ is_hybrid /\ n_cores >= 1 /\ PCount >= 1
        /\ \E c \in CpuIndices : ProbeFails(c))
    => returned[strategy].tag = "Err"

\* C2 (as claimed): on a hybrid CPU where every child was launched and no
\* task join failed, when some child's output trims to a string other than
\* "P_CORE" and "E_CORE" the request returns Err(UnknownCoreType).
C2_UnknownCoreType ==
    (pc = "Done" /\ is_hybrid /\ NoJoinError /\ PCount >= 1
        /\ (\A c \in CpuIndices : outcome[c].kind = "Exit")
        /\ (\E c \in CpuIndices : Unrecognised(c)))
    => IsError(returned[strategy], "UnknownCoreType")

\* C3 (as claimed): on a hybrid CPU where the pinning utility cannot be
\* launched for at least one index and every other child prints a valid
\* label, the request returns Err(TasksetFailure), in both strategies.
C3_TasksetFailure ==
    (pc = "Done" /\ is_hybrid /\ NoJoinError /\ PCount >= 1
        /\ (\E c \in CpuIndices : outcome[c].kind = "SpawnErr")
        /\ (\A c \in CpuIndices :
                outcome[c].kind = "SpawnErr" \/ Verdict(c).tag = "Ok"))
    => IsError(returned[strategy], "TasksetFailure")

\* The feature bit is_hybrid reads (bit 14 of EDX) is 0.
HybridBitUnset == (edx \div 16384) % 2 = 0

\* C4: when the hybrid feature bit is unset, a request never enters the
\* prober and launches no child, and what it returns, in either strategy,
\* is Err(NotHybridCPU).
C4_NotHybridShortCircuit ==
    HybridBitUnset =>
        /\ launched = <<>>
        /\ running = {}
        /\ pc \notin {"Probing", "Aggregating"}
        /\ \A s \in Strategies :
              returned[s].tag = "None" \/ IsError(returned[s], "NotHybridCPU")
        /\ pc = "Done" => IsError(returned[strategy], "NotHybridCPU")

C4_Witness ==
    /\ HybridBitUnset
    /\ pc = "Done"
    /\ launched = <<>>
    /\ IsError(returned["sync"], "NotHybridCPU")
    /\ IsError(returned["async"], "NotHybridCPU")

\* C5 (as claimed): when every verdict is a valid label, at least one is P
\* and all P indices are below all E indices, the returned layout has
\* p_cores = 0..(p_count - 1) and e_cores = p_count..(n - 1): p_cores starts
\* at 0, e_cores follows p_cores with no gap and ends at n - 1.
C5_LayoutCoversDomain ==
    (pc = "Done" /\ is_hybrid /\ NoJoinError /\ n_cores >= 1 /\ PCount >= 1
        /\ PBelowE /\ \A c \in CpuIndices : Verdict(c).tag = "Ok")
    => /\ returned[strategy].tag = "Ok"
       /\ LET l == returned[strategy].val
          IN  /\ l.p_cores.start = 0
              /\ l.p_cores.end = PCount - 1
              /\ l.e_cores.start = PCount
              /\ l.e_cores.end = n_cores - 1

\* C6: in the concurrent strategy every completed task's result sits at the
\* position of the handle of its launch, and the collected Vec holds at
\* position i the output of the child pinned to logical CPU i, whatever the
\* order in which the children complete.
C6_LaunchOrderMapping ==
    strategy = "async" =>
        /\ \A i \in CpuIndices :
              handles[i].state = "Ready" =>
                  handles[i].pin = i /\ handles[i].res = outcome[i]
        /\ pc = "Aggregating" =>
              /\ Len(raw_out) = n_cores
              /\ \A j \in 1 .. n_cores :
                    raw_out[j].pin = j - 1 /\ raw_out[j].res = outcome[j - 1]

C6_Witness ==
    /\ strategy = "async"
    /\ pc = "Aggregating"
    /\ overtaken
    /\ Len(raw_out) >= 2
    /\ raw_out[1].pin = 0 /\ raw_out[2].pin = 1
    /\ raw_out[1].res # raw_out[2].res

\* The concurrent request ended on a JoinError of try_join_all, which is no
\* outcome of a child: it is the only source of TasksetFailure.
JoinErrorReturned == IsError(returned["async"], "TasksetFailure")

\* C7: on the same hardware state the Vec either strategy hands to the
\* aggregator maps every index to the output of the child pinned to it, and
\* when both requests have returned on the children's outcomes they have
\* returned the same result.
C7_StrategiesAgree ==
    /\ pc = "Aggregating" =>
          /\ Len(raw_out) = n_cores
          /\ \A c \in CpuIndices :
                raw_out[c + 1] = [pin |-> c, res |-> outcome[c]]
    /\ (returned["sync"].tag # "None" /\ returned["async"].tag # "None"
            /\ ~JoinErrorReturned)
        => SameResult(returned["sync"], returned["async"])

C7_Witness ==
    /\ pc = "Done" /\ strategy = "async" /\ overtaken
    /\ returned["sync"].tag = "Ok"
    /\ returned["async"].tag = "Ok"
    /\ returned["sync"].val = returned["async"].val
    /\ \E a, b \in CpuIndices :
          /\ Verdict(a) = Ok("P")
          /\ Verdict(b) = Ok("E")

\* C8 (as claimed): CorePELayout::new(k), k in 0..18, puts every index
\* 0..k, k included, in p_cores and not in e_cores, and every index above k
\* and below the upper bound in e_cores and not in p_cores.
C8_PartitionAtLastP ==
    (call.fn = "new" /\ call.ret.tag = "Layout" /\ call.arg \in 0 .. (ECoresEnd - 1))
    => LET l == call.ret.val
           k == call.arg
       IN  \A i \in 0 .. (ECoresEnd - 1) :
              /\ i <= k => Contains(l.p_cores, i) /\ ~Contains(l.e_cores, i)
              /\ i > k => Contains(l.e_cores, i) /\ ~Contains(l.p_cores, i)

\* C9 (as claimed): when no verdict is P (all E, nothing recognised, or
\* n_cores = 0) the request returns an error instead of a layout computed
\* from the underflowed p_count - 1 or a panic.
C9_ZeroPCountIsError ==
    (pc = "Done" /\ is_hybrid /\ PCount = 0) => returned[strategy].tag = "Err"

\* s is body with only whitespace before and after it.
IsPadded(s, body) ==
    \E i \in 1 .. (Len(s) + 1) : \E j \in (i - 1) .. Len(s) :
        /\ SubSeq(s, i, j) = body
        /\ \A k \in (1 .. (i - 1)) \cup ((j + 1) .. Len(s)) : s[k] \in WhiteSpace

\* C10: from_string gives P exactly for "P_CORE", E exactly for "E_CORE" and
\* nothing for any other string (lower case, padded with whitespace, ...);
\* the prober's closure trims first, so it gives Ok(P) / Ok(E) exactly for
\* the labels padded with whitespace ("P_CORE\n" is P) and
\* Err(UnknownCoreType) for everything else.
C10_ExactParse ==
    call.ret.tag # "None" =>
        /\ call.fn = "from_string" =>
              /\ call.ret.val = "P" <=> call.arg = P_CORE
              /\ call.ret.val = "E" <=> call.arg = E_CORE
              /\ call.ret.val = None <=> call.arg \notin {P_CORE, E_CORE}
        /\ call.fn = "core_type_of" =>
              /\ call.ret = Ok("P") <=> IsPadded(call.arg, P_CORE)
              /\ call.ret = Ok("E") <=> IsPadded(call.arg, E_CORE)
              /\ call.ret = Err("UnknownCoreType")
                    <=> ~(IsPadded(call.arg, P_CORE) \/ IsPadded(call.arg, E_CORE))

C10_Witness ==
    /\ call.fn = "core_type_of"
    /\ call.arg = P_CORE \o <<"\n">>
    /\ call.ret = Ok("P")


\* The first Len(p) characters of s are p.
StartsWith(s, p) == Len(s) >= Len(p) /\ SubSeq(s, 1, Len(p)) = p

\* C11: test_core returns "P_CORE" exactly when the top byte of EAX is 64,
\* "E_CORE" exactly when it is 32, and otherwise a string that starts with
\* "UNRECOGNISED:" and echoes the top byte in 8 and EAX in 32 binary digits;
\* so the label parses to P / E exactly in the first two cases and to
\* nothing in all others.
C11_TestCoreClassifies ==
    (call.fn = "test_core" /\ call.ret.tag = "Label") =>
        LET top == call.arg.hi \div 256
            label == call.ret.val.label
            parsed == call.ret.val.parsed
        IN  /\ label = P_CORE <=> top = 64
            /\ label = E_CORE <=> top = 32
            /\ top \notin {32, 64} =>
                  /\ StartsWith(label, <<"U", "N", "R", "E", "C", "O", "G",
                                         "N", "I", "S", "E", "D", ":">>)
                  /\ Len(label) = 80
            /\ parsed = "P" <=> top = 64
            /\ parsed = "E" <=> top = 32
            /\ parsed = None <=> top \notin {32, 64}

C11_Witness ==
    /\ call.fn = "test_core"
    /\ call.arg = U32(64 * 256 + 255, 65535)
    /\ call.ret.tag = "Label"
    /\ call.ret.val.label = P_CORE
    /\ call.ret.val.parsed = "P"


\* C13: in the sequential strategy at most one child is in flight; the
\* launches are for the indices 0, 1, 2, ... in this order, and when the
\* child of an index is launched every earlier index has its result (its
\* child has exited, or could not be launched).
C13_SyncOneAtATime ==
    strategy = "sync" =>
        /\ Cardinality(running) <= 1
        /\ Len(launched) <= n_cores
        /\ \A j \in 1 .. Len(launched) : CpuOfArg(launched[j]) = j - 1
        /\ running \subseteq {Len(launched) - 1}
        /\ Len(raw_out) = Len(launched) - Cardinality(running)

C13_Witness ==
    /\ strategy = "sync"
    /\ pc = "Probing"
    /\ running = {1}
    /\ Len(launched) = 2
    /\ Len(raw_out) = 1

\* C14: in the concurrent strategy nothing is taken from the tasks before
\* every index has its child launched: while a launch is outstanding the
\* request is still in the prober with no collected result and nothing
\* returned. Several children are in flight at once.
C14_AsyncAllLaunchedFirst ==
    (strategy = "async" /\ pc # "Idle" /\ is_hybrid /\ Len(launched) < n_cores) =>
        /\ pc \in {"HybridCheck", "Probing"}
        /\ raw_out = <<>>
        /\ returned["async"].tag = "None"

C14_Witness ==
    /\ strategy = "async"
    /\ pc = "Probing"
    /\ Len(launched) = n_cores
    /\ Cardinality(running) >= 2
    /\ \A i \in running : outcome[i].kind = "Exit"


\* Child c was launched (or its launch attempted) and is no longer running.
HasCompleted(c) == c < Len(launched) /\ c \notin running

\* C15 (as claimed): no retries and first failure terminal: the launches of
\* a request are one per index, in index order, each pinned to its index,
\* and once a probe has failed the request is never in Aggregating and
\* never Done with a layout.
C15_FirstFailureTerminal ==
    /\ Len(launched) <= n_cores
    /\ \A j \in 1 .. Len(launched) : CpuOfArg(launched[j]) = j - 1
    /\ (is_hybrid /\ PCount >= 1
            /\ \E c \in CpuIndices : HasCompleted(c) /\ ProbeFails(c))
       => /\ pc # "Aggregating"
          /\ ~(pc = "Done" /\ returned[strategy].tag = "Ok")

\* C16 (as claimed): with p_count >= 1 P verdicts the returned layout has
\* the indices 0 .. p_count-1 in p_cores and p_count .. 18 in e_cores,
\* whatever the number and the positions of the verdicts.
C16_LayoutFromPCount ==
    (pc = "Done" /\ is_hybrid /\ PCount >= 1 /\ returned[strategy].tag = "Ok")
    => LET l == returned[strategy].val
       IN  \A i \in 0 .. (U8Modulus - 1) :
              /\ Contains(l.p_cores, i) <=> i <= PCount - 1
              /\ Contains(l.e_cores, i) <=> (PCount <= i /\ i <= ECoresEnd - 1)

\* What a request returns when it depends on the number of P verdicts
\* alone.
ResultOfPCount(k) ==
    IF k = 0
    THEN IF overflow_checks THEN Panic
         ELSE Ok(CorePELayout(Range(0, U8Modulus - 1), Range(0, ECoresEnd)))
    ELSE Ok(CorePELayout(Range(0, k - 1), Range(k, ECoresEnd)))

HungChild(c) == c < Len(launched) /\ outcome[c].kind = "Hang"
NoHang == \A c \in CpuIndices : outcome[c].kind # "Hang"

\* C12 (as claimed): in both strategies, a request that has returned has no
\* launched child that never completes.
C12_HungChildHangsRequest ==
    (pc = "Done" /\ is_hybrid) => \A c \in CpuIndices : ~HungChild(c)

\* C12 (amended): a request that has returned something other than the
\* TasksetFailure of a failed task join has no launched child that never
\* completes; and a request whose children all complete (or that launches
\* none) returns.
C12_HangsUnlessJoinError ==
    /\ []((pc = "Done" /\ is_hybrid /\ NoJoinError)
            => \A c \in CpuIndices : ~HungChild(c))
    /\ ((pc = "HybridCheck" /\ (~is_hybrid \/ NoHang)) ~> pc = "Done")

C12_Witness ==
    /\ pc = "Probing" /\ strategy = "async"
    /\ next = n_cores
    /\ n_cores >= 2
    /\ \E c \in running : HungChild(c)
    /\ \E c \in CpuIndices : handles[c].state = "Ready"
    /\ \A c \in CpuIndices : handles[c].state = "Ready" \/ HungChild(c)

====
